---- MODULE Spec2Model ----
(***************************************************************************)
(* NinjaDroid command-line front end (ninjadroid.py): argument parsing,    *)
(* reading the target APK, and the two output modes (print / extract).     *)
(* Strings are sequences of one-character strings so that basename,        *)
(* slicing, searching and concatenation are computed as Python does.       *)
(***************************************************************************)
EXTENDS Integers, Sequences, FiniteSets, TLC

VARIABLES
    argv,              \* the command line
    file,              \* what is on disk at the target path
    fs,                \* directories that exist
    pc,                \* position in main
    args,              \* Namespace returned by get_args
    logLevel,          \* level of the "NinjaDroid" logger
    log,               \* records the logger has emitted
    ctorArgs,          \* arguments the APK constructor was called with
    apk,               \* main's local apk
    filename,          \* main's local filename
    output_directory,  \* extract_apk_info_to_directory's local output_directory
    created,           \* directories passed to os.makedirs, in order
    calls,             \* collaborator executions, in order
    stdout,            \* what has been printed
    ret                \* main's return value

vars == <<argv, file, fs, pc, args, logLevel, log, ctorArgs, apk, filename,
          output_directory, created, calls, stdout, ret>>

(* ------------------------------ bounds -------------------------------- *)

\* longest file path explored for get_apk_filename_without_extension
MaxPathLen == 5

(* ------------------------------ strings ------------------------------- *)

\* Optional[T]: None is the empty sequence, a value x is <<x>>
None == <<>>

Some(x) == <<x>>

Get(o) == o[1]

Alphabet == {".", "a", "p", "k", "K", "/"}

RECURSIVE StringsUpTo(_)
StringsUpTo(n) ==
    IF n = 0 THEN {<<>>}
    ELSE LET shorter == StringsUpTo(n - 1)
         IN  shorter \cup {Append(s, c) : s \in {t \in shorter : Len(t) = n - 1}, c \in Alphabet}

Paths == StringsUpTo(MaxPathLen)

\* str.lower() on one character (re.IGNORECASE compares case-folded)
Lower(c) ==
    CASE c = "A" -> "a"
      [] c = "P" -> "p"
      [] c = "K" -> "k"
      [] OTHER   -> c

LowerStr(s) == [i \in 1..Len(s) |-> Lower(s[i])]

DotApk == <<".", "a", "p", "k">>

\* os.path.basename (posix): everything after the last "/"
basename(p) ==
    LET slashes == {i \in 1..Len(p) : p[i] = "/"}
        last    == IF slashes = {} THEN 0 ELSE CHOOSE i \in slashes : \A j \in slashes : j <= i
    IN  SubSeq(p, last + 1, Len(p))

\* re.search("\\.apk", s, re.IGNORECASE): the pattern occurs anywhere in s
re_search_apk(s) ==
    \E i \in 1..(Len(s) - 3) : LowerStr(SubSeq(s, i, i + 3)) = DotApk

\* Python slice s[0:-4]: the stop index len-4 is clamped to 0
SliceDropLast4(s) ==
    IF Len(s) <= 4 THEN <<>> ELSE SubSeq(s, 1, Len(s) - 4)

\* the base name with a trailing ".apk" (any letter case) removed
FilenameWithoutApkSuffix(filepath) ==
    LET name == basename(filepath)
    IN  IF Len(name) >= 4 /\ LowerStr(SubSeq(name, Len(name) - 3, Len(name))) = DotApk
        THEN SliceDropLast4(name)
        ELSE name

get_apk_filename_without_extension(filepath) ==
    LET name == basename(filepath)
    IN  IF re_search_apk(filepath) THEN SliceDropLast4(name) ELSE name

(* --------------------------- command line ----------------------------- *)

\* "--extract": absent, given without a value, or given with a value
Absent  == [given |-> FALSE, value |-> None]
NoValue == [given |-> TRUE, value |-> None]

WithValue(d) == [given |-> TRUE, value |-> Some(d)]

CurDir == <<".", "/">>

Targets ==
    { <<"a", ".", "a", "p", "k">>,
      <<"d", "/", "b", ".", "A", "P", "K">>,
      <<"c">>,
      <<".", "a", "p", "k">>,
      <<"a", ".", "a", "p", "k", ".", "z">> }

ExtractValues == { CurDir, <<"o", "u", "t">>, <<"o", "/">> }

CommandLines ==
    [ target  : Targets,
      extract : {Absent, NoValue} \cup {WithValue(d) : d \in ExtractValues},
      ns      : BOOLEAN,
      verbose : BOOLEAN,
      version : BOOLEAN ]

\* mutation: the flag is declared with action="store_true"
get_args_store_true(cl) ==
    [ target                  |-> cl.target,
      target_output_directory |-> CASE ~cl.extract.given        -> None
                                    [] cl.extract.value = None -> Some(CurDir)
                                    [] OTHER                   -> cl.extract.value,
      no_string_processing    |-> cl.ns,
      verbose                 |-> cl.verbose ]

\* argparse Namespace produced by get_args for a command line
get_args(cl) ==
    [ target                  |-> cl.target,
      target_output_directory |-> CASE ~cl.extract.given        -> None
                                    [] cl.extract.value = None -> Some(CurDir)
                                    [] OTHER                   -> cl.extract.value,
      no_string_processing    |-> ~cl.ns,
      verbose                 |-> cl.verbose ]

NoArgs ==
    [ target |-> <<>>, target_output_directory |-> None,
      no_string_processing |-> TRUE, verbose |-> FALSE ]

(* ------------------------- the target file ---------------------------- *)

\* what is on disk at the target path
Files ==
    { [kind |-> k, manifest |-> FALSE, dex |-> FALSE, cert |-> FALSE] :
          k \in {"missing", "empty", "notzip"} }
    \cup
    [ kind : {"zip"}, manifest : BOOLEAN, dex : BOOLEAN, cert : BOOLEAN ]

\* exception classes: APKParsingError derives from ParsingError
IsInstance(exc, cls) ==
    \/ exc = cls
    \/ exc = "APKParsingError" /\ cls = "ParsingError"

\* APK(filepath, string_processing, logger): the Package Aggregator's build
APK(f, filepath, string_processing) ==
    CASE f.kind \in {"missing", "empty"} -> [exc |-> "ParsingError", value |-> None]
      [] f.kind = "notzip"               -> [exc |-> "APKParsingError", value |-> None]
      [] OTHER ->
            [exc   |-> "none",
             value |-> [ file_name         |-> filepath,
                         manifest          |-> f.manifest,
                         dex               |-> f.dex,
                         cert              |-> f.cert,
                         string_processing |-> string_processing,
                         strings_extracted |-> f.dex /\ string_processing ]]

MsgNotApk      == "must be an APK package!"
MsgNotReadable == "must be an existing, readable file!"

\* logger.<level>(msg): appended only if the logger's level lets it through
Rank(l) == CASE l = "DEBUG" -> 10 [] l = "INFO" -> 20 [] OTHER -> 40

Emit(lg, lvl, level, msg, arg) ==
    IF Rank(level) >= Rank(lvl)
    THEN Append(lg, [level |-> level, msg |-> msg, arg |-> arg])
    ELSE lg

\* mutation: the two except clauses in the opposite order
read_target_file_swapped(f, filepath, no_string_processing, lvl, lg) ==
    LET lg1  == Emit(lg, lvl, "DEBUG", "Reading", filepath)
        r    == APK(f, filepath, no_string_processing)
        ctor == Some([filepath |-> filepath, string_processing |-> no_string_processing])
    IN  CASE r.exc = "none" ->
                [apk |-> Some(r.value), log |-> lg1, ctor |-> ctor]
          [] r.exc # "none" /\ IsInstance(r.exc, "ParsingError") ->
                [apk |-> None, ctor |-> ctor,
                 log |-> Emit(lg1, lvl, "ERROR", MsgNotReadable, filepath)]
          [] r.exc # "none" /\ ~IsInstance(r.exc, "ParsingError")
                            /\ IsInstance(r.exc, "APKParsingError") ->
                [apk |-> None, ctor |-> ctor,
                 log |-> Emit(lg1, lvl, "ERROR", MsgNotApk, filepath)]

\* read_target_file: the first matching except clause handles the exception
read_target_file(f, filepath, no_string_processing, lvl, lg) ==
    LET lg1  == Emit(lg, lvl, "DEBUG", "Reading", filepath)
        r    == APK(f, filepath, no_string_processing)
        ctor == Some([filepath |-> filepath, string_processing |-> no_string_processing])
    IN  CASE r.exc = "none" ->
                [apk |-> Some(r.value), log |-> lg1, ctor |-> ctor]
          [] r.exc # "none" /\ IsInstance(r.exc, "APKParsingError") ->
                [apk |-> None, ctor |-> ctor,
                 log |-> Emit(lg1, lvl, "ERROR", MsgNotApk, filepath)]
          [] r.exc # "none" /\ ~IsInstance(r.exc, "APKParsingError")
                            /\ IsInstance(r.exc, "ParsingError") ->
                [apk |-> None, ctor |-> ctor,
                 log |-> Emit(lg1, lvl, "ERROR", MsgNotReadable, filepath)]

(* ----------------------------- file system ---------------------------- *)

\* mutation: the directory is used as given
effective_output_directory_as_given(dir, name) == dir

\* extract_apk_info_to_directory, first statement
effective_output_directory(dir, name) ==
    IF dir = CurDir THEN dir \o name ELSE dir

CandidateDirs ==
    ExtractValues \cup
    { CurDir \o get_apk_filename_without_extension(t) : t \in Targets }

InitialFileSystems ==
    { {CurDir} } \cup { {CurDir, d} : d \in CandidateDirs }

(* -------------------------------- Init -------------------------------- *)

Blank ==
    /\ pc = "start"
    /\ args = NoArgs
    /\ logLevel = "INFO"
    /\ log = <<>>
    /\ ctorArgs = None
    /\ apk = None
    /\ filename = <<>>
    /\ output_directory = None
    /\ created = <<>>
    /\ calls = <<>>
    /\ stdout = <<>>
    /\ ret = None

Init ==
    /\ argv \in CommandLines
    /\ file \in Files
    /\ fs \in InitialFileSystems
    /\ Blank

(* ------------------------------- main --------------------------------- *)

\* main, lines 40-42; "--version" makes parse_args exit the process
MainGetArgs ==
    /\ pc = "start"
    /\ IF argv.version
       THEN /\ pc' = "exited"
            /\ stdout' = Append(stdout, "version")
            /\ UNCHANGED <<args, logLevel>>
       ELSE /\ pc' = "args"
            /\ args' = get_args(argv)
            /\ logLevel' = IF get_args(argv).verbose THEN "DEBUG" ELSE logLevel
            /\ UNCHANGED stdout
    /\ UNCHANGED <<argv, file, fs, log, ctorArgs, apk, filename,
                   output_directory, created, calls, ret>>

\* mutation: the None check is dropped and main goes on with whatever it got
MainReadTargetFileNoCheck ==
    /\ pc = "args"
    /\ LET r == read_target_file(file, args.target, args.no_string_processing, logLevel, log)
       IN  /\ apk' = r.apk
           /\ log' = r.log
           /\ ctorArgs' = r.ctor
           /\ pc' = "read"
           /\ UNCHANGED ret
    /\ UNCHANGED <<argv, file, fs, args, logLevel, filename, output_directory,
                   created, calls, stdout>>

\* mutation: a package without a manifest is treated as a failure
MainReadTargetFileStrict ==
    /\ pc = "args"
    /\ LET r == read_target_file(file, args.target, args.no_string_processing, logLevel, log)
       IN  /\ apk' = r.apk
           /\ log' = r.log
           /\ ctorArgs' = r.ctor
           /\ IF r.apk = None \/ ~Get(r.apk).manifest
              THEN pc' = "done" /\ ret' = Some(1)
              ELSE pc' = "read" /\ UNCHANGED ret
    /\ UNCHANGED <<argv, file, fs, args, logLevel, filename, output_directory,
                   created, calls, stdout>>

\* main, lines 44-46
MainReadTargetFile ==
    /\ pc = "args"
    /\ LET r == read_target_file(file, args.target, args.no_string_processing, logLevel, log)
       IN  /\ apk' = r.apk
           /\ log' = r.log
           /\ ctorArgs' = r.ctor
           /\ IF r.apk = None
              THEN pc' = "done" /\ ret' = Some(1)
              ELSE pc' = "read" /\ UNCHANGED ret
    /\ UNCHANGED <<argv, file, fs, args, logLevel, filename, output_directory,
                   created, calls, stdout>>

\* print_apk_info: json.dumps(apk.dump()) written to standard output
print_apk_info(out, a) == Append(out, "apk_info")

\* mutation: the report is printed and main falls through to the extraction
MainPrintFallThrough ==
    /\ pc = "read"
    /\ args.target_output_directory = None
    /\ filename' = get_apk_filename_without_extension(args.target)
    /\ stdout' = print_apk_info(stdout, Get(apk))
    /\ output_directory' = Some(effective_output_directory(CurDir, filename'))
    /\ fs' = fs \cup {Get(output_directory')}
    /\ pc' = "apktool"
    /\ UNCHANGED <<argv, file, args, logLevel, log, ctorArgs, apk, created, calls, ret>>

\* main, lines 48-50 and 53: no --extract
MainPrint ==
    /\ pc = "read"
    /\ args.target_output_directory = None
    /\ filename' = get_apk_filename_without_extension(args.target)
    /\ stdout' = print_apk_info(stdout, Get(apk))
    /\ pc' = "done"
    /\ ret' = Some(0)
    /\ UNCHANGED <<argv, file, fs, args, logLevel, log, ctorArgs, apk,
                   output_directory, created, calls>>

\* main, lines 48, 51-52 and extract_apk_info_to_directory, lines 141-143,
\* with create_output_directory_if_needed
MainExtractBegin ==
    /\ pc = "read"
    /\ args.target_output_directory # None
    /\ filename' = get_apk_filename_without_extension(args.target)
    /\ LET dir == effective_output_directory(Get(args.target_output_directory), filename')
       IN  /\ output_directory' = Some(dir)
           /\ IF dir \notin fs
              THEN /\ log' = Emit(log, logLevel, "INFO", "Creating", dir)
                   /\ created' = Append(created, dir)
                   /\ fs' = fs \cup {dir}
              ELSE UNCHANGED <<log, created, fs>>
    /\ pc' = "apktool"
    /\ UNCHANGED <<argv, file, args, logLevel, ctorArgs, apk, calls, stdout, ret>>

(* ------------------- extract_apk_info_to_directory -------------------- *)

\* mutation: the certificate is extracted before the decompilers are launched
ExtractionOrderCertFirst ==
    << "ExtractCertificateFile", "LaunchApkTool", "LaunchDex2Jar",
       "ExtractDexFile", "GetApkInfoInHtml", "GetApkInfoInJson" >>

\* the collaborators in the order of lines 144-149
ExtractionOrder ==
    << "LaunchApkTool", "LaunchDex2Jar", "ExtractCertificateFile",
       "ExtractDexFile", "GetApkInfoInHtml", "GetApkInfoInJson" >>

Position(op) == CHOOSE i \in 1..Len(ExtractionOrder) : ExtractionOrder[i] = op

\* program counter while inside extract_apk_info_to_directory
Stage(i) == IF i = 1 THEN "apktool" ELSE ExtractionOrder[i]

\* <Collaborator>(logger).execute(...): the call is recorded with its arguments
Execute(op, usesPath, usesName, usesApk) ==
    /\ pc = Stage(Position(op))
    /\ calls' = Append(calls,
                  [ op               |-> op,
                    input_filepath   |-> IF usesPath THEN Some(args.target) ELSE None,
                    input_filename   |-> IF usesName THEN Some(filename) ELSE None,
                    apk              |-> IF usesApk THEN apk ELSE None,
                    output_directory |-> Get(output_directory),
                    directory_exists |-> Get(output_directory) \in fs ])
    /\ IF Position(op) = Len(ExtractionOrder)
       THEN pc' = "done" /\ ret' = Some(0)
       ELSE pc' = Stage(Position(op) + 1) /\ UNCHANGED ret
    /\ UNCHANGED <<argv, file, fs, args, logLevel, log, ctorArgs, apk, filename,
                   output_directory, created, stdout>>

LaunchApkTool == Execute("LaunchApkTool", TRUE, FALSE, FALSE)

LaunchDex2Jar == Execute("LaunchDex2Jar", TRUE, TRUE, FALSE)

ExtractCertificateFile == Execute("ExtractCertificateFile", FALSE, FALSE, TRUE)

ExtractDexFile == Execute("ExtractDexFile", FALSE, FALSE, TRUE)

GetApkInfoInHtml == Execute("GetApkInfoInHtml", FALSE, TRUE, TRUE)

GetApkInfoInJson == Execute("GetApkInfoInJson", FALSE, TRUE, TRUE)

(* --------------------------- specifications --------------------------- *)

Next ==
    \/ MainGetArgs
    \/ MainReadTargetFile
    \/ MainPrint
    \/ MainExtractBegin
    \/ LaunchApkTool
    \/ LaunchDex2Jar
    \/ ExtractCertificateFile
    \/ ExtractDexFile
    \/ GetApkInfoInHtml
    \/ GetApkInfoInJson

Spec == Init /\ [][Next]_vars

\* get_apk_filename_without_extension applied to every path up to MaxPathLen
InitFilename ==
    /\ argv \in [ target : Paths, extract : {Absent}, ns : {FALSE},
                   verbose : {FALSE}, version : {FALSE} ]
    /\ file = [kind |-> "missing", manifest |-> FALSE, dex |-> FALSE, cert |-> FALSE]
    /\ fs = {CurDir}
    /\ Blank

ApplyFilename ==
    /\ pc = "start"
    /\ filename' = get_apk_filename_without_extension(argv.target)
    /\ pc' = "named"
    /\ UNCHANGED <<argv, file, fs, args, logLevel, log, ctorArgs, apk,
                   output_directory, created, calls, stdout, ret>>

NextFilename == ApplyFilename

SpecFilename == InitFilename /\ [][NextFilename]_vars

TypeOK ==
    /\ pc \in {"start", "args", "read", "apktool", "named", "done", "exited"}
            \cup {ExtractionOrder[i] : i \in 1..Len(ExtractionOrder)}
    /\ ret \in {None, Some(0), Some(1)}

(* ------------------------------ properties ---------------------------- *)

ErrorsLogged == SelectSeq(log, LAMBDA e : e.level = "ERROR")

ErrorRecord(msg) == [level |-> "ERROR", msg |-> msg, arg |-> args.target]

\* C1: once read_target_file has run, an APKParsingError from the constructor
\* has logged exactly the "must be an APK package" error, any other
\* ParsingError exactly the "must be an existing, readable file" error, in
\* both cases None was returned and main went on (nothing propagated); the
\* two errors are never logged together, and a successful construction logs
\* no error and returns the APK object.
C1_ReadTargetFileReportsFailure ==
    ctorArgs # None =>
        LET raised == APK(file, args.target, args.no_string_processing)
        IN  /\ raised.exc = "APKParsingError" =>
                  /\ ErrorsLogged = <<ErrorRecord(MsgNotApk)>>
                  /\ apk = None /\ pc = "done"
            /\ (raised.exc # "none" /\ raised.exc # "APKParsingError") =>
                  /\ ErrorsLogged = <<ErrorRecord(MsgNotReadable)>>
                  /\ apk = None /\ pc = "done"
            /\ raised.exc = "none" =>
                  /\ ErrorsLogged = <<>>
                  /\ apk = Some(raised.value)
            /\ Len(ErrorsLogged) <= 1

C1_Witness ==
    /\ pc = "done"
    /\ file.kind = "notzip"
    /\ ErrorsLogged = <<ErrorRecord(MsgNotApk)>>
    /\ apk = None

\* C2: the string-processing switch handed to the APK constructor is off
\* exactly when --no-string-processing was on the command line, and then the
\* package carries no extracted URLs or shell commands.
C2_StringProcessingSwitch ==
    /\ ctorArgs # None => (Get(ctorArgs).string_processing <=> ~argv.ns)
    /\ apk # None =>
          /\ Get(apk).string_processing <=> ~argv.ns
          /\ argv.ns => ~Get(apk).strings_extracted

C2_Witness ==
    /\ argv.ns
    /\ file.kind = "zip" /\ file.dex
    /\ apk # None
    /\ ~Get(ctorArgs).string_processing
    /\ ~Get(apk).strings_extracted

\* C3: when main has returned, it returned 1 exactly if read_target_file gave
\* None, and then nothing was printed, no directory was created and no
\* collaborator ran; otherwise it returned 0 after printing or extracting.
C3_ParseFailureIsFatal ==
    pc = "done" =>
        /\ ret = Some(1) <=> apk = None
        /\ ret = Some(1) =>
              /\ stdout = <<>>
              /\ created = <<>>
              /\ output_directory = None
              /\ calls = <<>>
        /\ ret # Some(1) =>
              /\ ret = Some(0)
              /\ stdout # <<>> \/ calls # <<>>

C3_Witness ==
    /\ pc = "done"
    /\ ret = Some(1)
    /\ argv.extract.given
    /\ created = <<>>
    /\ calls = <<>>

ExpectedCollaborators ==
    << "LaunchApkTool", "LaunchDex2Jar", "ExtractCertificateFile",
       "ExtractDexFile", "GetApkInfoInHtml", "GetApkInfoInJson" >>

\* C4: a readable, non-empty input whose container opens always yields a
\* package, whichever of the manifest, dex and certificate decoders failed
\* (the failed field is absent); no result comes only from an unreadable or
\* empty input (ParsingError) or a container that does not open
\* (APKParsingError); main then prints or extracts the package and returns 0.
C4_BestEffortAggregation ==
    /\ ctorArgs # None =>
          /\ apk = None <=> file.kind \in {"missing", "empty", "notzip"}
          /\ apk # None =>
                /\ Get(apk).manifest = file.manifest
                /\ Get(apk).dex = file.dex
                /\ Get(apk).cert = file.cert
    /\ (pc = "done" /\ file.kind = "zip") =>
          /\ ret = Some(0)
          /\ apk # None
          /\ stdout = <<"apk_info">> \/ Len(calls) = Len(ExpectedCollaborators)

C4_Witness ==
    /\ pc = "done"
    /\ file.kind = "zip"
    /\ ~file.manifest /\ ~file.dex /\ ~file.cert
    /\ apk # None
    /\ ret = Some(0)

\* the directory named by --extract: its value, or "./" without a value
GivenDirectory ==
    IF argv.extract.value = None THEN CurDir ELSE Get(argv.extract.value)

C6_ExtractionOrder ==
    /\ Len(calls) <= Len(ExpectedCollaborators)
    /\ \A i \in DOMAIN calls :
          /\ calls[i].op = ExpectedCollaborators[i]
          /\ calls[i].directory_exists
          /\ output_directory = Some(calls[i].output_directory)
    /\ Len(created) <= 1
    /\ output_directory # None => Get(output_directory) \in fs
    /\ (pc = "done" /\ output_directory # None) =>
          Len(calls) = Len(ExpectedCollaborators)

C6_Witness ==
    /\ pc = "done"
    /\ Len(created) = 1
    /\ [i \in DOMAIN calls |-> calls[i].op] = ExpectedCollaborators
    /\ \A i \in DOMAIN calls : calls[i].output_directory = created[1]

\* C7: after a successful parse main does exactly one of two things: without
\* --extract it prints the APK info once, creates nothing and runs no
\* collaborator; with --extract (with or without a value) it runs the
\* extraction once and prints nothing.
C7_OutputModesExclusive ==
    /\ (pc = "done" /\ apk # None) =>
          IF argv.extract.given
          THEN /\ stdout = <<>>
               /\ output_directory # None
               /\ Len(calls) = Len(ExpectedCollaborators)
          ELSE /\ stdout = <<"apk_info">>
               /\ output_directory = None
               /\ created = <<>>
               /\ calls = <<>>
    /\ apk # None => ~(stdout # <<>> /\ (output_directory # None \/ calls # <<>>))
    /\ (apk # None /\ ~argv.extract.given) =>
          (output_directory = None /\ created = <<>> /\ calls = <<>>)
    /\ (apk # None /\ argv.extract.given) => stdout = <<>>

C7_Witness ==
    /\ pc = "done"
    /\ apk # None
    /\ ~argv.extract.given
    /\ stdout = <<"apk_info">>
    /\ calls = <<>>
    /\ fs \in InitialFileSystems

\* C8: get_apk_filename_without_extension returns the base name with its
\* trailing ".apk" (any letter case) removed, and the base name unchanged
\* when it does not end in ".apk".
C8_FilenameWithoutExtension ==
    pc = "named" => filename = FilenameWithoutApkSuffix(argv.target)

====
